---- MODULE Spec2Model ----
(***************************************************************************)
(* Patient portal: the cross-tab channel (src/lib/cross-tab.ts), the data  *)
(* layer with its localStorage mirror (src/app/patients/page.tsx, from     *)
(* line 250 on) and the page handlers that tie them together               *)
(* (src/unnamed/part_002, src/components/patient-list.tsx).                *)
(*                                                                         *)
(* Every browser tab is a context.  All contexts share localStorage (the   *)
(* notification key and the mirror key) and the wall clock.                *)
(***************************************************************************)
EXTENDS Integers, Sequences, FiniteSets, TLC

\* ------------------------------------------------------------------ bounds
MaxPub == 2          \* postMessage calls in a behaviour
MaxListeners == 2    \* onMessage calls made on one channel instance
MaxMalformed == 1    \* foreign writes under the notification key
MaxRedeliver == 1    \* storage events the browser delivers a second time
MaxClose == 2        \* close() calls made on one channel instance

RemoveDelay == 100   \* setTimeout(..., 100) in postMessage

\* The open tabs.
Ctx == {"A", "B"}
Callbacks == {"cb1", "cb2"}
Strategies == {"native", "fallback"}

\* typeof window === "undefined": the constructor binds nothing.
NoWindow == "none"

\* A MessageData without a timestamp field: the field is undefined.
NoTs == -1
NoField == "none"
Actions == {"add", "delete", NoField}

\* notifyListeners(undefined): what a listener gets when the envelope has no message
UndefinedMsg == [type |-> "undefined", action |-> NoField, timestamp |-> NoTs]

VARIABLES
    strategy,                 \* delivery mechanism bound by the constructor
    constructed,              \* [Ctx -> BOOLEAN] getPatientChannel() has built the singleton
    nativeClosed,             \* [Ctx -> BOOLEAN] BroadcastChannel closed flag
    listeners,                \* [Ctx -> Seq(Callbacks)] this.listeners
    lastProcessedTimestamp,   \* [Ctx -> Int]
    notifyKey,                \* localStorage["cross-tab-patient-updates"]
    inbox,                    \* [Ctx -> Seq(event)] tasks queued on the context's event loop
    timers,                   \* Seq([owner, at]) pending setTimeout removals
    now,                      \* Date.now()
    \* history of the channel
    pubs,                     \* Seq([from, message, at]) every postMessage call, in order
    log,                      \* [Ctx -> Seq(entry)] notifyListeners calls, see NotifyListeners
    expected,                 \* [Ctx -> SUBSET Nat] publishes made while subscribed
    handles,                  \* [Ctx -> SUBSET Callbacks] unsubscribe handles handed out
    regs,                     \* [Ctx -> Nat] number of onMessage calls so far
    registrations,            \* [Ctx -> SUBSET [cb, n]] live registrations: callback, number of its onMessage call
    unsub,                    \* [Ctx -> SUBSET Callbacks] removed by their handle, not re-registered
    closeInfo,                \* [Ctx -> [closed, cbs, calls]] close() was called; the listeners it
                              \* removed; the number of close() calls
    threw,                    \* [Ctx -> BOOLEAN] a channel call threw in this context
    malformed,                \* number of foreign writes so far
    redelivered               \* number of redelivered storage events so far

chanVars == <<strategy, constructed, nativeClosed, listeners, lastProcessedTimestamp, notifyKey,
              inbox, timers, now, pubs, log, expected, handles, regs, registrations, unsub,
              closeInfo, threw, malformed, redelivered>>

\* The data layer and the page of every context.
VARIABLES
    db,                       \* [Ctx -> SUBSET record] the patients table of the context's PGlite
    seq,                      \* [Ctx -> Nat] last value of patients_id_seq
    mirror,                   \* localStorage["patients"]
    view,                     \* [Ctx -> Seq(record)] the page's patients state
    op,                       \* [Ctx -> [kind, step, id, name, synced]] the handler in progress
    ops,                      \* number of UI mutations started so far
    hydrated,                 \* [Ctx -> SUBSET Nat] the ids of the snapshot initDB loaded
    commits,                  \* number of mutations whose database statement succeeded
    boot                      \* [Ctx -> [handle, created, done, failed, early, unready, calls]]
                              \* the module variable db is set; the patients table exists;
                              \* an initDB() run rehydrated or seeded it; a rehydration
                              \* failed; a patients query was issued before done; initDB
                              \* returned the handle before done; the calls in progress

\* The patient form (one instance, in the add dialog) and the page component.
VARIABLES
    form,                     \* [contact, error, passed] formData.contact, errors.contact,
                              \* and the contacts handed to onSubmit so far
    page                      \* [Ctx -> [unmounted, removeListener, run]] the effect's cleanup
                              \* ran; the removeListener binding the cleanup reads is set;
                              \* which setupDatabase call is the latest ("mount", "retry")

\* What the handlers of the data layer leave alone.
sideVars == <<form, page>>

\* The createdAt column, followed by SpecCreated only: the other specifications
\* leave it out of the rows and keep these two variables as they start.
VARIABLES
    createdAt,                \* [Ctx -> [id -> time]] the createdAt column of the context's table
    mirrorCreatedAt           \* [id -> time] the createdat field of the rows under the mirror key

colVars == <<createdAt, mirrorCreatedAt>>

appVars == <<db, seq, mirror, view, op, ops, hydrated, commits, boot, sideVars, colVars>>

vars == <<chanVars, appVars>>

\* ------------------------------------------------------- stored values
\* The value under the notification key, as the text localStorage holds.
Absent == [kind |-> "absent", message |-> UndefinedMsg, timestamp |-> NoTs]

\* JSON.stringify({message: data, timestamp: Date.now()})
Stringify(data, ts) == [kind |-> "envelope", message |-> data, timestamp |-> ts]

\* Texts no postMessage writes: not JSON at all, the JSON null, the JSON {},
\* and an object with a numeric timestamp but no message.
MalformedValues(t) ==
    { [kind |-> "garbage", message |-> UndefinedMsg, timestamp |-> NoTs],
      [kind |-> "null", message |-> UndefinedMsg, timestamp |-> NoTs],
      [kind |-> "object", message |-> UndefinedMsg, timestamp |-> NoTs],
      [kind |-> "tsOnly", message |-> UndefinedMsg, timestamp |-> t] }

\* JSON.parse(event.newValue || "{}") followed by the reads of data.timestamp and
\* data.message: throws on text that is no JSON (SyntaxError) and on null (TypeError).
ParseEnvelope(v) ==
    [throws |-> v.kind \in {"garbage", "null"},
     timestamp |-> IF v.kind \in {"envelope", "tsOnly"} THEN v.timestamp ELSE NoTs,
     message |-> IF v.kind = "envelope" THEN v.message ELSE UndefinedMsg]

\* The test written with >= instead of >.
IsNewerOrEqual(ts, last) == ts # NoTs /\ ts >= last

\* data.timestamp > this.lastProcessedTimestamp (undefined > n is false)
IsNewer(ts, last) == ts # NoTs /\ ts > last

\* ------------------------------------------------------- the channel
NotifyKey == "cross-tab-patient-updates"
MirrorKey == "patients"

\* An event carries, next to what the browser hands to the handler, the number of the
\* publish that caused it (0: none) and the callbacks the receiving context had
\* unsubscribed when it was published.
StorageEvent(key, v, id, barred) ==
    [src |-> "storage", key |-> key, value |-> v, id |-> id, barred |-> barred]
NativeEvent(data, id, barred) ==
    [src |-> "native", key |-> "none",
     value |-> [kind |-> "data", message |-> data, timestamp |-> NoTs], id |-> id,
     barred |-> barred]

Range(s) == {s[i] : i \in 1..Len(s)}
Last(s) == s[Len(s)]

\* A publish that also reaches the publishing context.
RecipientsWithSelf(c) == Ctx

\* The contexts a publish of context c is dispatched to: BroadcastChannel and the
\* storage event both skip the object, respectively the document, that wrote.
Recipients(c) == Ctx \ {c}

\* this.nativeBroadcastChannel is set: the constructor created the BroadcastChannel.
NativeBound(c) == constructed[c] /\ strategy = "native"

\* A storage listener installed by every constructor.
StorageListenersAlways == {c \in Ctx : constructed[c]}

\* The storage listener exists only where setupLocalStorageFallback ran.
StorageListeners == IF strategy = "fallback" THEN {c \in Ctx : constructed[c]} ELSE {}

\* localStorage.setItem / removeItem on a key from context c: the event is queued in
\* every other document, and only when the stored value changes.
StorageWrite(c, key, changed, new, id) ==
    [d \in Ctx |->
        IF d \in Recipients(c) \cap StorageListeners /\ changed
        THEN Append(inbox[d], StorageEvent(key, new, id, IF id = 0 THEN {} ELSE unsub[d]))
        ELSE inbox[d]]

\* BroadcastChannel.postMessage: a task on every other open channel of that name.
NativeSend(c, data, id) ==
    [d \in Ctx |->
        IF d \in Recipients(c) /\ constructed[d] /\ ~nativeClosed[d]
        THEN Append(inbox[d], NativeEvent(data, id, unsub[d]))
        ELSE inbox[d]]

\* A handle that removes nothing.
FilterOutNothing(s, cb) == s

\* this.listeners.filter((listener) => listener !== callback)
FilterOut(s, cb) == SelectSeq(s, LAMBDA x : x # cb)

\* The contexts that are subscribed when context c publishes.
Subscribed(d) == listeners[d] # <<>> /\ ~nativeClosed[d]

\* A listener that throws when it is called.
Throwing == {"cbThrows"}

\* Some listener of the list throws.
Raises(s) == \E i \in 1..Len(s) : s[i] \in Throwing

\* this.listeners.forEach((listener) => listener(data)): the listeners called, in
\* order. The callback's exception leaves forEach: the first throwing listener is
\* the last one called.
Called(s) ==
    IF Raises(s)
    THEN SubSeq(s, 1, CHOOSE i \in 1..Len(s) :
                         /\ s[i] \in Throwing
                         /\ \A j \in 1..(i - 1) : s[j] \notin Throwing)
    ELSE s

\* The handler that called notifyListeners catches what a listener throws: the
\* storage listener's try/catch does, the native onmessage handler has none.
CatchesListener(src) == src # "native"

\* notifyListeners(data): forEach over this.listeners, recorded as one log entry:
\* the listeners called, in order (cbs), the message, the timestamp the channel read,
\* the publish (id), and which callbacks were, at that moment, unsubscribed since
\* before the publish (barred) or removed by close() (closedCbs), and the
\* registrations that were live (regd).
\* A listener throws (raised); the exception then leaves notifyListeners and
\* its caller: the storage listener calls notifyListeners inside its try, whose
\* catch logs it (caught); the native onmessage handler has no try, the exception
\* leaves the handler.
NotifyListeners(c, ev, data, ts) ==
    IF listeners[c] = <<>> THEN log[c]
    ELSE Append(log[c], [id |-> ev.id, message |-> data, ts |-> ts,
                         cbs |-> Called(listeners[c]),
                         barred |-> ev.barred \cap unsub[c],
                         closedCbs |-> closeInfo[c].cbs,
                         regd |-> registrations[c],
                         raised |-> Raises(listeners[c]),
                         caught |-> Raises(listeners[c]) /\ CatchesListener(ev.src)])

PatientUpdated(action, t) == [type |-> "PATIENT_UPDATED", action |-> action, timestamp |-> t]

Messages(t) == [type : {"PATIENT_UPDATED"}, action : {"add", "delete"}, timestamp : {t}]

\* The mirror key before anything was stored under it.
MirrorAbsent == [kind |-> "absent", rows |-> <<>>]

\* No handler of the page is running.
Idle == [kind |-> "idle", step |-> "none", id |-> 0, name |-> "none", synced |-> "none"]

MaxCalls == 2
Callers == 1..MaxCalls

\* A call of the data layer that has not been made.
NoCall == [pc |-> "idle", then |-> "none"]

\* let db: PGlite | null = null, and no call made yet.
BootNone == [handle |-> FALSE, created |-> FALSE, done |-> FALSE, failed |-> FALSE,
             early |-> FALSE, unready |-> FALSE, calls |-> [k \in Callers |-> NoCall]]

\* The data layer after one initDB() ran from its first line to its return.
Booted == [BootNone EXCEPT !.handle = TRUE, !.created = TRUE, !.done = TRUE]

\* The page component of a context: mounted, its cleanup holding the handle of the
\* listener or not.
Mounted(held) == [unmounted |-> FALSE, removeListener |-> held, run |-> "mount"]

\* The form as useState leaves it when no initialData is given: every field empty,
\* no error; nothing submitted, no statement run.
InitSide ==
    /\ form = [contact |-> <<>>, error |-> FALSE, passed |-> <<>>]
    /\ commits = 0
    /\ createdAt = [c \in Ctx |-> <<>>]
    /\ mirrorCreatedAt = <<>>

\* The data layer before any initDB() ran; the specifications of the channel alone
\* keep it in this state.
InitApp ==
    /\ db = [c \in Ctx |-> {}]
    /\ seq = [c \in Ctx |-> 0]
    /\ mirror = MirrorAbsent
    /\ view = [c \in Ctx |-> <<>>]
    /\ op = [c \in Ctx |-> Idle]
    /\ ops = 0
    /\ hydrated = [c \in Ctx |-> {}]
    /\ boot = [c \in Ctx |-> BootNone]
    /\ InitSide

\* The state after the constructor ran in every context, with the listeners ls
\* registered and every handle still unused.
InitWith(ls) ==
    /\ strategy \in Strategies
    /\ constructed = [c \in Ctx |-> TRUE]
    /\ nativeClosed = [c \in Ctx |-> FALSE]
    /\ listeners = [c \in Ctx |-> ls]
    /\ lastProcessedTimestamp = [c \in Ctx |-> 0]
    /\ notifyKey = Absent
    /\ inbox = [c \in Ctx |-> <<>>]
    /\ timers = <<>>
    /\ now = 1
    /\ pubs = <<>>
    /\ log = [c \in Ctx |-> <<>>]
    /\ expected = [c \in Ctx |-> {}]
    /\ handles = [c \in Ctx |-> Range(ls)]
    /\ regs = [c \in Ctx |-> Len(ls)]
    /\ registrations = [c \in Ctx |-> {[cb |-> ls[i], n |-> i] : i \in 1..Len(ls)}]
    /\ unsub = [c \in Ctx |-> {}]
    /\ closeInfo = [c \in Ctx |-> [closed |-> FALSE, cbs |-> {}, calls |-> 0]]
    /\ threw = [c \in Ctx |-> FALSE]
    /\ malformed = 0
    /\ redelivered = 0
    /\ page = [c \in Ctx |-> Mounted(listeners[c] # <<>>)]
    /\ InitApp

\* A fresh instance: new CrossTabCommunication("patient-updates").
InitChannel == InitWith(<<>>)

\* The instance as the page holds it: setupDatabase registers its listener in the
\* same task that constructs the singleton (getPatientChannel, then onMessage).
InitPageChannel == InitWith(<<"cb1">>)

\* A registration that goes to the front of the list.
RegisterFirst(s, cb) == <<cb>> \o s

\* this.listeners.push(callback)
Register(s, cb) == Append(s, cb)

\* onMessage(callback): push, and hand out the unsubscribe handle.
Push(c, cb) ==
    /\ regs' = [regs EXCEPT ![c] = @ + 1]
    /\ registrations' = [registrations EXCEPT ![c] = @ \cup {[cb |-> cb, n |-> regs[c] + 1]}]
    /\ listeners' = [listeners EXCEPT ![c] = Register(@, cb)]
    /\ handles' = [handles EXCEPT ![c] = @ \cup {cb}]
    /\ unsub' = [unsub EXCEPT ![c] = @ \ {cb}]
    /\ closeInfo' = [closeInfo EXCEPT ![c].cbs = @ \ {cb}]

OnMessage(c, cb) ==
    /\ regs[c] < MaxListeners
    /\ Push(c, cb)
    /\ UNCHANGED <<strategy, constructed, nativeClosed, lastProcessedTimestamp, notifyKey, inbox,
                   timers, now, pubs, log, expected, threw,  malformed,
                   redelivered>>

\* The handle returned by onMessage(callback).
Unsubscribe(c, cb) ==
    /\ cb \in handles[c]
    /\ listeners' = [listeners EXCEPT ![c] = FilterOut(@, cb)]
    /\ registrations' = [registrations EXCEPT ![c] = {r \in @ : r.cb # cb}]
    /\ unsub' = [unsub EXCEPT ![c] = @ \cup {cb}]
    /\ expected' = [expected EXCEPT ![c] = IF listeners'[c] = <<>> THEN {} ELSE @]
    /\ UNCHANGED <<strategy, constructed, nativeClosed, lastProcessedTimestamp, notifyKey, inbox,
                   timers, now, pubs, log, handles, regs, closeInfo, threw,
                    malformed, redelivered>>

\* A close() that reopens a channel it finds closed.
NativeAfterCloseToggled(closed) == IF strategy = "native" THEN ~closed ELSE closed

\* this.nativeBroadcastChannel.close(), when the field is set: closing a closed
\* BroadcastChannel does nothing.
NativeAfterClose(closed) == closed \/ strategy = "native"

\* close(): closes the native channel when there is one, empties the listener list.
Close(c) ==
    /\ closeInfo[c].calls < MaxClose
    /\ nativeClosed' = [nativeClosed EXCEPT ![c] = NativeAfterClose(@)]
    /\ listeners' = [listeners EXCEPT ![c] = <<>>]
    /\ registrations' = [registrations EXCEPT ![c] = {}]
    /\ closeInfo' = [closeInfo EXCEPT ![c] =
                        [closed |-> TRUE, cbs |-> @.cbs \cup Range(listeners[c]),
                         calls |-> @.calls + 1]]
    /\ expected' = [expected EXCEPT ![c] = {}]
    /\ UNCHANGED <<strategy, constructed, lastProcessedTimestamp, notifyKey, inbox, timers, now, pubs,
                   log, handles, regs, unsub, threw,  malformed, redelivered>>

\* The second branch of postMessage taken whenever the first one is not.
UsesStoreAlways == strategy # "native"

\* else if (typeof window !== "undefined"): the second branch of postMessage.
UsesStore == strategy = "fallback"

\* postMessage(data).  Native: BroadcastChannel.postMessage, which throws
\* InvalidStateError on a closed channel (close() does not reset the field).
\* Fallback: setItem of the envelope, and a timer that removes the key.
\* Without a window: nothing.
PostMessage(c, data) ==
    /\ Len(pubs) < MaxPub
    /\ pubs' = Append(pubs, [from |-> c, message |-> data, at |-> now])
    /\ IF strategy = "native"
       THEN /\ threw' = [threw EXCEPT ![c] = @ \/ nativeClosed[c]]
            /\ inbox' = IF nativeClosed[c] THEN inbox
                                           ELSE NativeSend(c, data, Len(pubs) + 1)
            /\ UNCHANGED <<notifyKey, timers>>
       ELSE IF UsesStore
       THEN /\ notifyKey' = Stringify(data, now)
            /\ inbox' = StorageWrite(c, NotifyKey, notifyKey # Stringify(data, now),
                                     Stringify(data, now), Len(pubs) + 1)
            /\ timers' = Append(timers, [owner |-> c, at |-> now])
            /\ UNCHANGED threw
       ELSE UNCHANGED <<notifyKey, inbox, timers, threw>>
    /\ expected' = [d \in Ctx |->
                      IF d \in Recipients(c) /\ Subscribed(d) /\ ~nativeClosed[c]
                      THEN expected[d] \cup {Len(pubs) + 1}
                      ELSE expected[d]]
    /\ UNCHANGED <<strategy, constructed, nativeClosed, listeners, lastProcessedTimestamp, now, log,
                   handles, regs, registrations, unsub, closeInfo,  malformed, redelivered>>

\* The storage listener's test: the key is the channel's, the text parses, and the
\* envelope is newer than the last one processed.
Accepts(c, ev) ==
    /\ ev.key = NotifyKey
    /\ ~ParseEnvelope(ev.value).throws
    /\ IsNewer(ParseEnvelope(ev.value).timestamp, lastProcessedTimestamp[c])

\* One task of context c's event loop: the native onmessage handler, or the
\* storage listener.
Deliver(c) ==
    /\ inbox[c] # <<>>
    /\ inbox' = [inbox EXCEPT ![c] = Tail(@)]
    /\ LET ev == Head(inbox[c]) IN
       IF ev.src = "native"
       THEN /\ log' = [log EXCEPT ![c] =
                          IF nativeClosed[c] THEN @
                          ELSE NotifyListeners(c, ev, ev.value.message,
                                               ev.value.message.timestamp)]
            /\ UNCHANGED lastProcessedTimestamp
       ELSE /\ IF Accepts(c, ev)
               THEN /\ lastProcessedTimestamp' =
                         [lastProcessedTimestamp EXCEPT
                            ![c] = ParseEnvelope(ev.value).timestamp]
                    /\ log' = [log EXCEPT ![c] =
                                  NotifyListeners(c, ev, ParseEnvelope(ev.value).message,
                                                  ParseEnvelope(ev.value).timestamp)]
               ELSE UNCHANGED <<lastProcessedTimestamp, log>>
    /\ UNCHANGED <<strategy, constructed, nativeClosed, listeners, notifyKey, timers, now, pubs,
                   expected, handles, regs, registrations, unsub, closeInfo, threw, malformed, redelivered>>

\* A removal that also discards the storage events still waiting in the other
\* documents.
TimerFirePurging ==
    /\ timers # <<>>
    /\ now >= Head(timers).at + RemoveDelay
    /\ timers' = Tail(timers)
    /\ notifyKey' = Absent
    /\ inbox' = [d \in Ctx |->
                   IF d \in Recipients(Head(timers).owner) \cap StorageListeners /\ notifyKey # Absent
                   THEN <<StorageEvent(NotifyKey, Absent, 0, {})>>
                   ELSE inbox[d]]
    /\ UNCHANGED <<strategy, constructed, nativeClosed, listeners, lastProcessedTimestamp, now, pubs,
                   log, expected, handles, regs, registrations, unsub, closeInfo, threw,
                   malformed, redelivered>>

\* The timer set by postMessage: localStorage.removeItem(this.localStorageKey).
TimerFire ==
    /\ timers # <<>>
    /\ now >= Head(timers).at + RemoveDelay
    /\ timers' = Tail(timers)
    /\ notifyKey' = Absent
    /\ inbox' = StorageWrite(Head(timers).owner, NotifyKey, notifyKey # Absent, Absent, 0)
    /\ UNCHANGED <<strategy, constructed, nativeClosed, listeners, lastProcessedTimestamp, now, pubs,
                   log, expected, handles, regs, registrations, unsub, closeInfo, threw, 
                   malformed, redelivered>>

\* The clock advances.  The code reads it only to stamp a publish and to run the
\* removal timer, so three distances from the latest publish are told apart: the
\* same millisecond, the next one, and the removal delay later.
Tick(d) ==
    /\ pubs # <<>>
    /\ \/ d = 1 /\ now = Last(pubs).at
       \/ d = RemoveDelay /\ now < Last(pubs).at + RemoveDelay
    /\ now' = Last(pubs).at + d
    /\ UNCHANGED <<strategy, constructed, nativeClosed, listeners, lastProcessedTimestamp, notifyKey,
                   inbox, timers, pubs, log, expected, handles, regs, registrations, unsub, closeInfo,
                   threw,  malformed, redelivered>>

\* Something other than postMessage writes text v under the notification key from
\* context c.  Only the storage listener reads that key.
WriteMalformed(c, v) ==
    /\ strategy = "fallback"
    /\ malformed < MaxMalformed
    /\ malformed' = malformed + 1
    /\ notifyKey' = v
    /\ inbox' = StorageWrite(c, NotifyKey, notifyKey # v, v, 0)
    /\ UNCHANGED <<strategy, constructed, nativeClosed, listeners, lastProcessedTimestamp, timers, now,
                   pubs, log, expected, handles, regs, registrations, unsub, closeInfo, threw, 
                   redelivered>>

\* The browser queues a second copy of a storage event that is waiting in context c:
\* the envelope is dispatched again, after whatever was queued in between.
Redeliver(c) ==
    /\ redelivered < MaxRedeliver
    /\ inbox[c] # <<>>
    /\ Head(inbox[c]).src = "storage"
    /\ Head(inbox[c]).value.kind = "envelope"
    /\ redelivered' = redelivered + 1
    /\ inbox' = [inbox EXCEPT ![c] = Append(@, Head(@))]
    /\ UNCHANGED <<strategy, constructed, nativeClosed, listeners, lastProcessedTimestamp, notifyKey,
                   timers, now, pubs, log, expected, handles, regs, registrations, unsub, closeInfo, threw,
                   malformed>>

\* ------------------------------------------------------- the data layer
Names == {"n1", "n2"}

\* samplePatients of addSampleDataDirect, in insertion order
SampleNames == <<"John Doe", "Jane Smith", "Robert Johnson">>

MaxId(S) == IF S = {} THEN 0 ELSE CHOOSE m \in {r.id : r \in S} : \A r \in S : r.id <= m

\* SELECT * FROM patients ORDER BY id DESC
Rows(S) ==
    LET sorted[T \in SUBSET S] ==
            IF T = {} THEN <<>>
            ELSE LET top == CHOOSE r \in T : r.id = MaxId(T) IN <<top>> \o sorted[T \ {top}]
    IN sorted[S]

\* JSON.stringify(result.rows)
Serialize(rows) == [kind |-> "json", rows |-> rows]

\* INSERT INTO patients (name, ...) VALUES (...): the id comes from the sequence.
Insert(S, lastId, name) == S \cup {[id |-> lastId + 1, name |-> name]}

\* UPDATE patients SET name = ... WHERE id = ...
Update(S, id, name) == {IF r.id = id THEN [r EXCEPT !.name = name] ELSE r : r \in S}

\* DELETE FROM patients WHERE id = ...
Delete(S, id) == {r \in S : r.id # id}

\* The three sample rows inserted into an empty table whose sequence is at lastId.
Samples(lastId) == {[id |-> lastId + i, name |-> SampleNames[i]] : i \in 1..Len(SampleNames)}

Handler(kind, step, id, name) ==
    [kind |-> kind, step |-> step, id |-> id, name |-> name, synced |-> "none"]

\* A sync that adds the context's rows to the rows the mirror already holds.
SyncMerging(c, table, ok) ==
    /\ mirror' = IF ok THEN Serialize(Rows(table \cup Range(mirror.rows))) ELSE mirror
    /\ inbox' = StorageWrite(c, MirrorKey, ok /\ mirror # Serialize(Rows(table)), Absent, 0)

\* syncToLocalStorage(): SELECT, then setItem of the serialized rows; ok = FALSE when
\* the query or setItem throws, which the function catches and logs.
SyncToLocalStorage(c, table, ok) ==
    /\ mirror' = IF ok THEN Serialize(Rows(table)) ELSE mirror
    /\ inbox' = StorageWrite(c, MirrorKey, ok /\ mirror # Serialize(Rows(table)), Absent, 0)

\* setupDatabase, first await: initDB().  Creates the table, then either loads the
\* rows of the mirror and moves the sequence to their highest id, or inserts the
\* sample rows and syncs them to the mirror.
InitDB(c, ok) ==
    /\ op[c].kind = "closed"
    /\ IF mirror.kind = "json" /\ Len(mirror.rows) > 0
       THEN /\ db' = [db EXCEPT ![c] = Range(mirror.rows)]
            /\ seq' = [seq EXCEPT ![c] = MaxId(Range(mirror.rows))]
            /\ UNCHANGED <<mirror, inbox>>
       ELSE /\ db' = [db EXCEPT ![c] = Samples(seq[c])]
            /\ seq' = [seq EXCEPT ![c] = @ + Len(SampleNames)]
            /\ SyncToLocalStorage(c, Samples(seq[c]), ok)
    /\ hydrated' = [hydrated EXCEPT ![c] =
                        IF mirror.kind = "json" /\ Len(mirror.rows) > 0
                        THEN {r.id : r \in Range(mirror.rows)} ELSE {}]
    /\ boot' = [boot EXCEPT ![c] = Booted]
    /\ op' = [op EXCEPT ![c] = Handler("setup", "load", 0, "none")]
    /\ UNCHANGED <<view, ops, commits, sideVars>>
    /\ UNCHANGED <<strategy, constructed, nativeClosed, listeners, lastProcessedTimestamp,
                   notifyKey, timers, now, pubs, log, expected, handles, regs, registrations, unsub,
                   closeInfo, threw, malformed, redelivered>>

\* loadPatients(): getAllPatients(), then setPatients.
LoadPatients(c) == view' = [view EXCEPT ![c] = Rows(db[c])]

\* setupDatabase, second await: loadPatients().
SetupLoad(c) ==
    /\ op[c].kind = "setup" /\ op[c].step = "load"
    /\ LoadPatients(c)
    /\ op' = [op EXCEPT ![c].step = "subscribe"]
    /\ UNCHANGED <<db, seq, mirror, ops, hydrated, commits, boot, sideVars>>
    /\ UNCHANGED chanVars

\* The arrow function a setupDatabase call passes to onMessage: a new function
\* object for every call.
PageListener(run) == IF run = "mount" THEN "cb1" ELSE "cb2"

\* The removeListener binding of the first render, which is the one the effect's
\* cleanup closes over: the setupDatabase called by the effect assigns it; the one
\* called by the Retry button belongs to a later render and assigns the binding of
\* that render.
Assigned(held, run) == held \/ run = "mount"

\* setupDatabase, the rest: getPatientChannel() builds the singleton, onMessage
\* registers the page's listener; the page becomes usable.
SetupSubscribe(c) ==
    /\ op[c].kind = "setup" /\ op[c].step = "subscribe"
    /\ constructed' = [constructed EXCEPT ![c] = TRUE]
    /\ Push(c, PageListener(page[c].run))
    /\ page' = [page EXCEPT ![c].removeListener = Assigned(@, page[c].run)]
    /\ op' = [op EXCEPT ![c] = Idle]
    /\ UNCHANGED <<db, seq, mirror, view, ops, hydrated, commits, boot, form>>
    /\ UNCHANGED <<strategy, nativeClosed, lastProcessedTimestamp, notifyKey, inbox, timers,
                   now, pubs, log, expected, threw, malformed, redelivered>>

\* initDB() throws in setupDatabase (db.waitReady rejects): the catch sets
\* initError, the finally ends the loading state; db stays assigned.
SetupFails(c) ==
    /\ op[c].kind = "closed"
    /\ boot' = [boot EXCEPT ![c].handle = TRUE]
    /\ op' = [op EXCEPT ![c] = Handler("error", "none", 0, "none")]
    /\ UNCHANGED <<db, seq, mirror, view, ops, hydrated, commits, sideVars>>
    /\ UNCHANGED chanVars

\* The Retry Initialization button: setupDatabase() of the current render; its
\* initDB() finds db set and returns it, and loadPatients() is next.
Retry(c) ==
    /\ op[c].kind = "error" /\ ~page[c].unmounted
    /\ page' = [page EXCEPT ![c].run = "retry"]
    /\ op' = [op EXCEPT ![c] = Handler("setup", "load", 0, "none")]
    /\ UNCHANGED <<db, seq, mirror, view, ops, hydrated, commits, boot, form>>
    /\ UNCHANGED chanVars

\* The page component unmounts: the cleanup of the effect calls removeListener
\* when its binding is set.  A setupDatabase in progress goes on.
Unmount(c) ==
    /\ op[c].kind # "closed" /\ ~page[c].unmounted
    /\ page' = [page EXCEPT ![c].unmounted = TRUE]
    /\ IF page[c].removeListener THEN Unsubscribe(c, "cb1") ELSE UNCHANGED chanVars
    /\ UNCHANGED <<db, seq, mirror, view, op, ops, hydrated, commits, boot, form>>

\* The user submits the add form, saves an edit or confirms a delete of a listed
\* patient: the handler starts and its database statement is issued.
StartAdd(c, name) ==
    /\ op[c].kind = "idle" /\ ops < MaxPub
    /\ ops' = ops + 1
    /\ op' = [op EXCEPT ![c] = Handler("add", "statement", 0, name)]
    /\ UNCHANGED <<db, seq, mirror, view, hydrated, commits, boot, sideVars>>
    /\ UNCHANGED chanVars

StartEdit(c, id, name) ==
    /\ op[c].kind = "idle" /\ ops < MaxPub
    /\ id \in {r.id : r \in Range(view[c])}
    /\ ops' = ops + 1
    /\ op' = [op EXCEPT ![c] = Handler("edit", "statement", id, name)]
    /\ UNCHANGED <<db, seq, mirror, view, hydrated, commits, boot, sideVars>>
    /\ UNCHANGED chanVars

StartDelete(c, id) ==
    /\ op[c].kind = "idle" /\ ops < MaxPub
    /\ id \in {r.id : r \in Range(view[c])}
    /\ ops' = ops + 1
    /\ op' = [op EXCEPT ![c] = Handler("delete", "statement", id, "none")]
    /\ UNCHANGED <<db, seq, mirror, view, hydrated, commits, boot, sideVars>>
    /\ UNCHANGED chanVars

\* A handler that goes on to the mirror write after its statement threw.
AfterFailureSync(h) == [h EXCEPT !.step = "sync"]

\* The statement throws: the data function's catch rethrows, the handler's catch
\* shows the error toast, and the handler is over.
AfterFailure(h) == Idle

\* addPatient / updatePatient / deletePatient up to the await of db.query: the
\* statement runs, or it throws and the handler's catch ends the operation.
Statement(c, ok) ==
    /\ op[c].kind \in {"add", "edit", "delete"} /\ op[c].step = "statement"
    /\ IF ok
       THEN /\ db' = [db EXCEPT ![c] =
                        CASE op[c].kind = "add" -> Insert(@, seq[c], op[c].name)
                          [] op[c].kind = "edit" -> Update(@, op[c].id, op[c].name)
                          [] OTHER -> Delete(@, op[c].id)]
            /\ seq' = [seq EXCEPT ![c] = IF op[c].kind = "add" THEN @ + 1 ELSE @]
            /\ op' = [op EXCEPT ![c].step = "sync"]
       ELSE /\ op' = [op EXCEPT ![c] = AfterFailure(@)]
            /\ UNCHANGED <<db, seq>>
    /\ commits' = IF ok THEN commits + 1 ELSE commits
    /\ UNCHANGED <<mirror, view, ops, hydrated, boot, sideVars>>
    /\ UNCHANGED chanVars

\* The user confirms "Clear All": handleClearData starts.
StartClear(c) ==
    /\ op[c].kind = "idle" /\ ops < MaxPub
    /\ ops' = ops + 1
    /\ op' = [op EXCEPT ![c] = Handler("clear", "statement", 0, "none")]
    /\ UNCHANGED <<db, seq, mirror, view, hydrated, commits, boot, sideVars>>
    /\ UNCHANGED chanVars

\* A clear that leaves the sequence where it is.
RestartKept(last) == last

\* ALTER SEQUENCE patients_id_seq RESTART WITH 1: the next nextval is 1.
Restart(last) == 0

\* clearAllData(): DELETE FROM patients, ALTER SEQUENCE ... RESTART WITH 1, and
\* removeItem of the mirror key; or the DELETE throws and the handler's catch ends
\* the operation.
ClearAllData(c, ok) ==
    /\ op[c].kind = "clear" /\ op[c].step = "statement"
    /\ IF ok
       THEN /\ db' = [db EXCEPT ![c] = {}]
            /\ seq' = [seq EXCEPT ![c] = Restart(@)]
            /\ mirror' = MirrorAbsent
            /\ inbox' = StorageWrite(c, MirrorKey, mirror # MirrorAbsent, Absent, 0)
            /\ op' = [op EXCEPT ![c].step = "load"]
       ELSE /\ op' = [op EXCEPT ![c] = Idle]
            /\ UNCHANGED <<db, seq, mirror, inbox>>
    /\ commits' = IF ok THEN commits + 1 ELSE commits
    /\ UNCHANGED <<view, ops, hydrated, boot, sideVars>>
    /\ UNCHANGED <<strategy, constructed, nativeClosed, listeners, lastProcessedTimestamp,
                   notifyKey, timers, now, pubs, log, expected, handles, regs, registrations, unsub,
                   closeInfo, threw, malformed, redelivered>>

\* handleAddPatient and handleClearData await loadPatients() before they publish;
\* handleEdit and handleDelete call onUpdate(), whose notifyUpdate publishes at
\* once and lets loadPatients() finish later.
LoadsFirst(kind) == kind \in {"add", "clear"}

\* A handler that never gets to its publish after an edit or a delete.
AfterSyncLoad(kind) == "load"

\* The step after a mutation returned to its handler.
AfterSync(kind) == IF LoadsFirst(kind) THEN "load" ELSE "publish"

\* await syncToLocalStorage() inside the mutation.
Sync(c, ok) ==
    /\ op[c].step = "sync"
    /\ SyncToLocalStorage(c, db[c], ok)
    /\ op' = [op EXCEPT ![c].step = AfterSync(op[c].kind),
                        ![c].synced = IF ok THEN "written" ELSE "failed"]
    /\ UNCHANGED <<db, seq, view, ops, hydrated, commits, boot, sideVars>>
    /\ UNCHANGED <<strategy, constructed, nativeClosed, listeners, lastProcessedTimestamp,
                   notifyKey, timers, now, pubs, log, expected, handles, regs, registrations, unsub,
                   closeInfo, threw, malformed, redelivered>>

\* loadPatients() of the handler.
Load(c) ==
    /\ op[c].kind \in {"add", "edit", "delete", "clear"} /\ op[c].step = "load"
    /\ LoadPatients(c)
    /\ op' = [op EXCEPT ![c] = IF LoadsFirst(op[c].kind) THEN [@ EXCEPT !.step = "publish"]
                                                         ELSE Idle]
    /\ UNCHANGED <<db, seq, mirror, ops, hydrated, commits, boot, sideVars>>
    /\ UNCHANGED chanVars

\* The message literal of the handler: handleAddPatient and handleClearData name
\* the action, notifyUpdate does not.
Notification(kind, t) ==
    PatientUpdated(CASE kind = "add" -> "add" [] kind = "clear" -> "delete" [] OTHER -> NoField, t)

\* channel.postMessage(...) of the handler.
Publish(c) ==
    /\ op[c].step = "publish"
    /\ PostMessage(c, Notification(op[c].kind, now))
    /\ op' = [op EXCEPT ![c] = IF LoadsFirst(op[c].kind) THEN Idle
                                                         ELSE [@ EXCEPT !.step = "load"]]
    /\ UNCHANGED <<db, seq, mirror, view, ops, hydrated, commits, boot, sideVars>>

\* A listener that takes the list from the mirror.
ReceiveFromMirror(c) ==
    /\ Deliver(c)
    /\ view' = [view EXCEPT ![c] =
                  IF log'[c] # log[c] /\ Last(log'[c]).message.type = "PATIENT_UPDATED"
                  THEN mirror.rows ELSE @]
    /\ UNCHANGED <<db, seq, mirror, op, ops, hydrated, commits, boot, sideVars>>

\* An event reaches the context; the page's listener reloads the list when the
\* channel passes it a PATIENT_UPDATED message.
Receive(c) ==
    /\ Deliver(c)
    /\ view' = [view EXCEPT ![c] =
                  IF log'[c] # log[c] /\ Last(log'[c]).message.type = "PATIENT_UPDATED"
                  THEN Rows(db[c]) ELSE @]
    /\ UNCHANGED <<db, seq, mirror, op, ops, hydrated, commits, boot, sideVars>>

\* No tab is open and nothing was ever stored.
Init ==
    /\ strategy \in Strategies
    /\ constructed = [c \in Ctx |-> FALSE]
    /\ nativeClosed = [c \in Ctx |-> FALSE]
    /\ listeners = [c \in Ctx |-> <<>>]
    /\ lastProcessedTimestamp = [c \in Ctx |-> 0]
    /\ notifyKey = Absent
    /\ inbox = [c \in Ctx |-> <<>>]
    /\ timers = <<>>
    /\ now = 1
    /\ pubs = <<>>
    /\ log = [c \in Ctx |-> <<>>]
    /\ expected = [c \in Ctx |-> {}]
    /\ handles = [c \in Ctx |-> {}]
    /\ regs = [c \in Ctx |-> 0]
    /\ registrations = [c \in Ctx |-> {}]
    /\ unsub = [c \in Ctx |-> {}]
    /\ closeInfo = [c \in Ctx |-> [closed |-> FALSE, cbs |-> {}, calls |-> 0]]
    /\ threw = [c \in Ctx |-> FALSE]
    /\ malformed = 0
    /\ redelivered = 0
    /\ db = [c \in Ctx |-> {}]
    /\ seq = [c \in Ctx |-> 0]
    /\ mirror = MirrorAbsent
    /\ view = [c \in Ctx |-> <<>>]
    /\ op = [c \in Ctx |-> [Idle EXCEPT !.kind = "closed"]]
    /\ ops = 0
    /\ hydrated = [c \in Ctx |-> {}]
    /\ boot = [c \in Ctx |-> BootNone]
    /\ page = [c \in Ctx |-> Mounted(FALSE)]
    /\ InitSide

Next ==
    \/ \E c \in Ctx, ok \in BOOLEAN : InitDB(c, ok) /\ UNCHANGED colVars
    \/ \E c \in Ctx : SetupLoad(c) /\ UNCHANGED colVars
    \/ \E c \in Ctx : SetupSubscribe(c) /\ UNCHANGED colVars
    \/ \E c \in Ctx, name \in Names : StartAdd(c, name) /\ UNCHANGED colVars
    \/ \E c \in Ctx, id \in 1..(Len(SampleNames) + MaxPub), name \in Names : StartEdit(c, id, name) /\ UNCHANGED colVars
    \/ \E c \in Ctx, id \in 1..(Len(SampleNames) + MaxPub) : StartDelete(c, id) /\ UNCHANGED colVars
    \/ \E c \in Ctx, ok \in BOOLEAN : Statement(c, ok) /\ UNCHANGED colVars
    \/ \E c \in Ctx, ok \in BOOLEAN : Sync(c, ok) /\ UNCHANGED colVars
    \/ \E c \in Ctx : Load(c) /\ UNCHANGED colVars
    \/ \E c \in Ctx : Publish(c) /\ UNCHANGED colVars
    \/ \E c \in Ctx : Receive(c) /\ UNCHANGED colVars
    \/ Tick(1) /\ UNCHANGED appVars

Spec == Init /\ [][Next]_vars

\* The tabs are opened, their setup succeeds or fails and is retried, and the page
\* is left (unmounted) at any moment; a tab whose page is up publishes.
NextMount ==
    \/ \E c \in Ctx : InitDB(c, TRUE) /\ UNCHANGED colVars
    \/ \E c \in Ctx : SetupFails(c) /\ UNCHANGED colVars
    \/ \E c \in Ctx : Retry(c) /\ UNCHANGED colVars
    \/ \E c \in Ctx : SetupLoad(c) /\ UNCHANGED colVars
    \/ \E c \in Ctx : SetupSubscribe(c) /\ UNCHANGED colVars
    \/ \E c \in Ctx : Unmount(c) /\ UNCHANGED colVars
    \/ \E c \in Ctx, data \in Messages(now) :
          op[c].kind = "idle" /\ ~page[c].unmounted /\ PostMessage(c, data) /\ UNCHANGED appVars
    \/ \E c \in Ctx : Receive(c) /\ UNCHANGED colVars

SpecMount == Init /\ [][NextMount]_vars

\* One tab, A, is open and idle: it seeded the sample rows, the user has deleted
\* some of them (any number, up to all three), and every mirror write succeeded.
\* The other tab, B, is not open yet.
InitPersist ==
    /\ strategy \in Strategies
    /\ constructed = [c \in Ctx |-> c = "A"]
    /\ nativeClosed = [c \in Ctx |-> FALSE]
    /\ listeners = [c \in Ctx |-> IF c = "A" THEN <<"cb1">> ELSE <<>>]
    /\ lastProcessedTimestamp = [c \in Ctx |-> 0]
    /\ notifyKey = Absent
    /\ inbox = [c \in Ctx |-> <<>>]
    /\ timers = <<>>
    /\ now = 1
    /\ pubs = <<>>
    /\ log = [c \in Ctx |-> <<>>]
    /\ expected = [c \in Ctx |-> {}]
    /\ handles = [c \in Ctx |-> IF c = "A" THEN {"cb1"} ELSE {}]
    /\ regs = [c \in Ctx |-> IF c = "A" THEN 1 ELSE 0]
    /\ registrations = [c \in Ctx |-> IF c = "A" THEN {[cb |-> "cb1", n |-> 1]} ELSE {}]
    /\ unsub = [c \in Ctx |-> {}]
    /\ closeInfo = [c \in Ctx |-> [closed |-> FALSE, cbs |-> {}, calls |-> 0]]
    /\ threw = [c \in Ctx |-> FALSE]
    /\ malformed = 0
    /\ redelivered = 0
    /\ \E R \in SUBSET Samples(0) :
          /\ db = [c \in Ctx |-> IF c = "A" THEN R ELSE {}]
          /\ mirror = Serialize(Rows(R))
          /\ view = [c \in Ctx |-> IF c = "A" THEN Rows(R) ELSE <<>>]
    /\ seq = [c \in Ctx |-> IF c = "A" THEN Len(SampleNames) ELSE 0]
    /\ op = [c \in Ctx |-> IF c = "A" THEN Idle ELSE [Idle EXCEPT !.kind = "closed"]]
    /\ ops = 0
    /\ hydrated = [c \in Ctx |-> {}]
    /\ boot = [c \in Ctx |-> IF c = "A" THEN Booted ELSE BootNone]
    /\ page = [c \in Ctx |-> Mounted(c = "A")]
    /\ InitSide

\* Tab A goes on adding, editing and deleting; tab B is opened at some moment
\* (a new tab, or the refresh of a closed one) and starts up.
NextPersist ==
    \/ \E name \in Names : StartAdd("A", name) /\ UNCHANGED colVars
    \/ \E id \in 1..(Len(SampleNames) + MaxPub), name \in Names : StartEdit("A", id, name) /\ UNCHANGED colVars
    \/ \E id \in 1..(Len(SampleNames) + MaxPub) : StartDelete("A", id) /\ UNCHANGED colVars
    \/ \E ok \in BOOLEAN : Statement("A", ok) /\ UNCHANGED colVars
    \/ \E ok \in BOOLEAN : Sync("A", ok) /\ UNCHANGED colVars
    \/ Load("A") /\ UNCHANGED colVars
    \/ Publish("A") /\ UNCHANGED colVars
    \/ \E ok \in BOOLEAN : InitDB("B", ok) /\ UNCHANGED colVars
    \/ SetupLoad("B") /\ UNCHANGED colVars
    \/ SetupSubscribe("B") /\ UNCHANGED colVars
    \/ \E c \in Ctx : Receive(c) /\ UNCHANGED colVars
    \/ Tick(1) /\ UNCHANGED appVars

SpecPersist == InitPersist /\ [][NextPersist]_vars

\* Both tabs are open and idle after a regular start: the first one, A, seeded the
\* sample rows and wrote the mirror, the second one, B, loaded them from the mirror.
InitTabs ==
    /\ strategy \in Strategies
    /\ constructed = [c \in Ctx |-> TRUE]
    /\ nativeClosed = [c \in Ctx |-> FALSE]
    /\ listeners = [c \in Ctx |-> <<"cb1">>]
    /\ lastProcessedTimestamp = [c \in Ctx |-> 0]
    /\ notifyKey = Absent
    /\ inbox = [c \in Ctx |-> <<>>]
    /\ timers = <<>>
    /\ now = 1
    /\ pubs = <<>>
    /\ log = [c \in Ctx |-> <<>>]
    /\ expected = [c \in Ctx |-> {}]
    /\ handles = [c \in Ctx |-> {"cb1"}]
    /\ regs = [c \in Ctx |-> 1]
    /\ registrations = [c \in Ctx |-> {[cb |-> "cb1", n |-> 1]}]
    /\ unsub = [c \in Ctx |-> {}]
    /\ closeInfo = [c \in Ctx |-> [closed |-> FALSE, cbs |-> {}, calls |-> 0]]
    /\ threw = [c \in Ctx |-> FALSE]
    /\ malformed = 0
    /\ redelivered = 0
    /\ db = [c \in Ctx |-> Samples(0)]
    /\ mirror = Serialize(Rows(Samples(0)))
    /\ view = [c \in Ctx |-> Rows(Samples(0))]
    /\ seq = [c \in Ctx |-> Len(SampleNames)]
    /\ op = [c \in Ctx |-> Idle]
    /\ ops = 0
    /\ hydrated = [c \in Ctx |-> IF c = "B" THEN {r.id : r \in Samples(0)} ELSE {}]
    /\ boot = [c \in Ctx |-> Booted]
    /\ page = [c \in Ctx |-> Mounted(TRUE)]
    /\ InitSide

\* The users of both tabs add, edit and delete patients; notifications travel.
NextTabs ==
    \/ \E c \in Ctx, name \in {"n1"} : StartAdd(c, name) /\ UNCHANGED colVars
    \/ \E c \in Ctx, id \in 1..(Len(SampleNames) + MaxPub), name \in {"n1"} : StartEdit(c, id, name) /\ UNCHANGED colVars
    \/ \E c \in Ctx, id \in 1..(Len(SampleNames) + MaxPub) : StartDelete(c, id) /\ UNCHANGED colVars
    \/ \E c \in Ctx, ok \in BOOLEAN : Statement(c, ok) /\ UNCHANGED colVars
    \/ \E c \in Ctx, ok \in BOOLEAN : Sync(c, ok) /\ UNCHANGED colVars
    \/ \E c \in Ctx : Load(c) /\ UNCHANGED colVars
    \/ \E c \in Ctx : Publish(c) /\ UNCHANGED colVars
    \/ \E c \in Ctx : Receive(c) /\ UNCHANGED colVars

SpecTabs == InitTabs /\ [][NextTabs]_vars

\* The two tabs with one kind of add, one kind of delete (of the first sample
\* patient, while it is listed) and "Clear All".
NextNotify ==
    \/ \E c \in Ctx : StartAdd(c, "n1") /\ UNCHANGED colVars
    \/ \E c \in Ctx : StartDelete(c, 1) /\ UNCHANGED colVars
    \/ \E c \in Ctx : StartClear(c) /\ UNCHANGED colVars
    \/ \E c \in Ctx, ok \in BOOLEAN : Statement(c, ok) /\ UNCHANGED colVars
    \/ \E c \in Ctx, ok \in BOOLEAN : ClearAllData(c, ok) /\ UNCHANGED colVars
    \/ \E c \in Ctx, ok \in BOOLEAN : Sync(c, ok) /\ UNCHANGED colVars
    \/ \E c \in Ctx : Load(c) /\ UNCHANGED colVars
    \/ \E c \in Ctx : Publish(c) /\ UNCHANGED colVars
    \/ \E c \in Ctx : Receive(c) /\ UNCHANGED colVars

\* The event loop of a tab runs every task it has queued and resumes every handler
\* whose await has settled.
FairNotify == InitTabs /\ [][NextNotify]_vars /\ WF_vars(NextNotify)

\* The same two tabs, whose users also press "Clear All".
NextClear ==
    \/ \E c \in Ctx, name \in {"n1"} : StartAdd(c, name) /\ UNCHANGED colVars
    \/ \E c \in Ctx, id \in 1..(Len(SampleNames) + MaxPub) : StartDelete(c, id) /\ UNCHANGED colVars
    \/ \E c \in Ctx : StartClear(c) /\ UNCHANGED colVars
    \/ \E c \in Ctx, ok \in BOOLEAN : Statement(c, ok) /\ UNCHANGED colVars
    \/ \E c \in Ctx, ok \in BOOLEAN : ClearAllData(c, ok) /\ UNCHANGED colVars
    \/ \E c \in Ctx, ok \in BOOLEAN : Sync(c, ok) /\ UNCHANGED colVars
    \/ \E c \in Ctx : Load(c) /\ UNCHANGED colVars
    \/ \E c \in Ctx : Publish(c) /\ UNCHANGED colVars
    \/ \E c \in Ctx : Receive(c) /\ UNCHANGED colVars

SpecClear == InitTabs /\ [][NextClear]_vars

\* Channel instances built where there is no window (server-side rendering): the
\* constructor binds neither mechanism.
InitNoWindow ==
    /\ strategy = NoWindow
    /\ constructed = [c \in Ctx |-> TRUE]
    /\ nativeClosed = [c \in Ctx |-> FALSE]
    /\ listeners = [c \in Ctx |-> <<>>]
    /\ lastProcessedTimestamp = [c \in Ctx |-> 0]
    /\ notifyKey = Absent
    /\ inbox = [c \in Ctx |-> <<>>]
    /\ timers = <<>>
    /\ now = 1
    /\ pubs = <<>>
    /\ log = [c \in Ctx |-> <<>>]
    /\ expected = [c \in Ctx |-> {}]
    /\ handles = [c \in Ctx |-> {}]
    /\ regs = [c \in Ctx |-> 0]
    /\ registrations = [c \in Ctx |-> {}]
    /\ unsub = [c \in Ctx |-> {}]
    /\ closeInfo = [c \in Ctx |-> [closed |-> FALSE, cbs |-> {}, calls |-> 0]]
    /\ threw = [c \in Ctx |-> FALSE]
    /\ malformed = 0
    /\ redelivered = 0
    /\ page = [c \in Ctx |-> Mounted(listeners[c] # <<>>)]
    /\ InitApp

\* Every call of the public interface; no event source exists.
NextNoWindow ==
    \/ \E cb \in Callbacks : OnMessage("B", cb) /\ UNCHANGED appVars
    \/ \E cb \in Callbacks : Unsubscribe("B", cb) /\ UNCHANGED appVars
    \/ Close("B") /\ UNCHANGED appVars
    \/ \E c \in Ctx, data \in Messages(now) : PostMessage(c, data) /\ UNCHANGED appVars
    \/ Tick(1) /\ UNCHANGED appVars

SpecNoWindow == InitNoWindow /\ [][NextNoWindow]_vars

\* The channel as the page uses it: one listener per context, publishes, clock,
\* removal timers and redelivered storage events.
NextChannel ==
    \/ \E c \in Ctx, data \in Messages(now) : PostMessage(c, data) /\ UNCHANGED appVars
    \/ \E c \in Ctx : Deliver(c) /\ UNCHANGED appVars
    \/ TimerFire /\ UNCHANGED appVars
    \/ \E d \in {1, RemoveDelay} : Tick(d) /\ UNCHANGED appVars
    \/ \E c \in Ctx : Redeliver(c) /\ UNCHANGED appVars

SpecChannel == InitPageChannel /\ [][NextChannel]_vars

\* Subscribing and unsubscribing in one context while the other one publishes: what
\* a context's listeners get depends on its own listener list and on the events
\* queued for it, never on the sender's listeners.
NextSubscribe ==
    \/ \E cb \in Callbacks : OnMessage("B", cb) /\ UNCHANGED appVars
    \/ \E cb \in Callbacks : Unsubscribe("B", cb) /\ UNCHANGED appVars
    \/ PostMessage("A", PatientUpdated("add", now)) /\ UNCHANGED appVars
    \/ \E c \in Ctx : Deliver(c) /\ UNCHANGED appVars

SpecSubscribe == InitChannel /\ [][NextSubscribe]_vars

\* Listeners that throw: context B registers listeners, some of which throw when
\* called, while context A publishes.
NextThrow ==
    \/ \E cb \in Callbacks \cup Throwing : OnMessage("B", cb) /\ UNCHANGED appVars
    \/ \E cb \in Callbacks \cup Throwing : Unsubscribe("B", cb) /\ UNCHANGED appVars
    \/ PostMessage("A", PatientUpdated("add", now)) /\ UNCHANGED appVars
    \/ \E c \in Ctx : Deliver(c) /\ UNCHANGED appVars

SpecThrow == InitChannel /\ [][NextThrow]_vars

\* Subscribing and closing in one context; both contexts publish.
NextClose ==
    \/ \E cb \in Callbacks : OnMessage("B", cb) /\ UNCHANGED appVars
    \/ Close("B") /\ UNCHANGED appVars
    \/ \E c \in Ctx : PostMessage(c, PatientUpdated("add", now)) /\ UNCHANGED appVars
    \/ \E c \in Ctx : Deliver(c) /\ UNCHANGED appVars

SpecClose == InitChannel /\ [][NextClose]_vars

\* Foreign writes under the notification key, next to regular publishes.
NextMalformed ==
    \/ \E c \in Ctx, data \in Messages(now) : PostMessage(c, data) /\ UNCHANGED appVars
    \/ \E c \in Ctx : Deliver(c) /\ UNCHANGED appVars
    \/ \E c \in Ctx, v \in MalformedValues(now) : WriteMalformed(c, v) /\ UNCHANGED appVars
    \/ Tick(1) /\ UNCHANGED appVars

SpecMalformed == InitPageChannel /\ [][NextMalformed]_vars

\* Callers that publish with and without a timestamp field in the message.
NextStamp ==
    \/ \E c \in Ctx, data \in Messages(now) \cup Messages(NoTs) :
          PostMessage(c, data) /\ UNCHANGED appVars
    \/ \E c \in Ctx : Deliver(c) /\ UNCHANGED appVars
    \/ Tick(1) /\ UNCHANGED appVars

SpecStamp == InitPageChannel /\ [][NextStamp]_vars

\* ------------------------------------------------------- the createdAt column
\* The ids of a set of rows.
RowIds(S) == {r.id : r \in S}

\* createdAt TIMESTAMP DEFAULT CURRENT_TIMESTAMP, for the rows with the ids given:
\* no INSERT and no UPDATE of the data layer names the column, so a row that
\* is inserted gets the time of its INSERT and a row that exists keeps its value.
DefaultCreatedAt(col, ids, t) == [i \in ids |-> IF i \in DOMAIN col THEN col[i] ELSE t]

\* The column after initDB(): the table of a new PGlite instance is empty, and
\* both the rehydration INSERT and the sample INSERT leave createdAt to its default.
\* The sample rows are then written to the mirror with the column.
CreatedAtInitDB(c, ok) ==
    /\ createdAt' = [createdAt EXCEPT ![c] = DefaultCreatedAt(<<>>, RowIds(db'[c]), now)]
    /\ mirrorCreatedAt' = IF mirror' # mirror THEN createdAt'[c] ELSE mirrorCreatedAt

\* The column after the statement of addPatient, updatePatient or deletePatient.
CreatedAtStatement(c, ok) ==
    /\ createdAt' = [createdAt EXCEPT ![c] = DefaultCreatedAt(@, RowIds(db'[c]), now)]
    /\ UNCHANGED mirrorCreatedAt

\* syncToLocalStorage(): SELECT * returns the column with every row and
\* JSON.stringify writes it.
CreatedAtSync(c, ok) ==
    /\ mirrorCreatedAt' = IF ok THEN createdAt[c] ELSE mirrorCreatedAt
    /\ UNCHANGED createdAt

\* Tab A starts up on an empty store and adds and deletes records; tab B is
\* opened at some later moment and rehydrates from the mirror.
NextCreated ==
    \/ \E c \in Ctx, ok \in BOOLEAN : InitDB(c, ok) /\ CreatedAtInitDB(c, ok)
    \/ \E c \in Ctx : SetupLoad(c) /\ UNCHANGED colVars
    \/ \E c \in Ctx : SetupSubscribe(c) /\ UNCHANGED colVars
    \/ \E c \in Ctx : StartAdd(c, "n1") /\ UNCHANGED colVars
    \/ \E c \in Ctx : StartDelete(c, 1) /\ UNCHANGED colVars
    \/ \E c \in Ctx, ok \in BOOLEAN : Statement(c, ok) /\ CreatedAtStatement(c, ok)
    \/ \E c \in Ctx, ok \in BOOLEAN : Sync(c, ok) /\ CreatedAtSync(c, ok)
    \/ \E c \in Ctx : Load(c) /\ UNCHANGED colVars
    \/ \E c \in Ctx : Publish(c) /\ UNCHANGED colVars
    \/ \E c \in Ctx : Receive(c) /\ UNCHANGED colVars
    \/ Tick(1) /\ UNCHANGED appVars

SpecCreated == Init /\ [][NextCreated]_vars

\* ------------------------------------------------------- claims on the channel
Ids(c) == {log[c][i].id : i \in 1..Len(log[c])}
Quiet == \A c \in Ctx : inbox[c] = <<>>

\* C1: in every context, each message passed to the listeners has a timestamp
\* strictly greater than the one passed before it, on either strategy: a message
\* that is not strictly newer than the last processed one is ignored.
C1_OnlyStrictlyNewer ==
    \A c \in Ctx : \A i \in 1..Len(log[c]) :
        i > 1 => log[c][i].ts > log[c][i - 1].ts

\* C2: no listener of a context is ever called with a message that context published.
C2_NoSelfEcho ==
    \A c \in Ctx : \A i \in 1..Len(log[c]) :
        log[c][i].id # 0 => pubs[log[c][i].id].from # c

\* C2 witness: a context with a listener has published, the other context got the
\* message, and nothing is in transit any more.
C2_Witness ==
    /\ Quiet
    /\ \E c \in Ctx : /\ listeners[c] # <<>>
                       /\ \E d \in Ctx \ {c} : \E i \in 1..Len(log[d]) :
                             log[d][i].id # 0 /\ pubs[log[d][i].id].from = c

\* C3: once nothing is in transit, every message published while a context was
\* subscribed has been passed to that context's listeners.
C3_AtLeastOnce ==
    \A c \in Ctx : inbox[c] = <<>> => expected[c] \subseteq Ids(c)

\* C4: a listener call is always for a publish of another context, carries the
\* message as published, and happens at most once per publish; and once nothing is
\* in transit after a single publish, the other context's listeners were called
\* exactly once, whatever key removals and redelivered events came after.
C4_ExactlyOnce ==
    \A c \in Ctx :
        /\ \A i \in 1..Len(log[c]) :
              /\ log[c][i].id \in 1..Len(pubs)
              /\ log[c][i].message = pubs[log[c][i].id].message
              /\ \A j \in 1..Len(log[c]) : log[c][j].id = log[c][i].id => j = i
        /\ (Len(pubs) = 1 /\ pubs[1].from # c /\ inbox[c] = <<>>) => Len(log[c]) = 1

\* C4 witness: one publish, its removal timer has run, an event was delivered a
\* second time, all of it has been handled, and the listener ran once.
C4_Witness ==
    /\ Len(pubs) = 1 /\ timers = <<>> /\ redelivered = 1 /\ Quiet
    /\ strategy = "fallback"
    /\ \E c \in Ctx : pubs[1].from # c /\ Len(log[c]) = 1
                       /\ log[c][1].message.timestamp = pubs[1].at

\* C5: of two publishes of one context with the same type and action, each one is
\* passed to the listeners of the other, subscribed context.
C5_IdenticalPayloadsBothNotified ==
    \A c \in Ctx : \A i, j \in 1..Len(pubs) :
        ( /\ i < j /\ inbox[c] = <<>> /\ {i, j} \subseteq expected[c]
          /\ pubs[i].from = pubs[j].from
          /\ pubs[i].message.type = pubs[j].message.type
          /\ pubs[i].message.action = pubs[j].message.action )
        => {i, j} \subseteq Ids(c)

\* C6: a callback whose unsubscribe handle ran before a message was published is
\* not among the listeners called for that message.
C6_UnsubscribedNeverCalled ==
    \A c \in Ctx : \A i \in 1..Len(log[c]) :
        Range(log[c][i].cbs) \cap log[c][i].barred = {}

\* C6 witness: a message published after one callback's handle ran was passed to
\* the listener that remained.
C6_Witness ==
    \E c \in Ctx : \E i \in 1..Len(log[c]) :
        log[c][i].barred # {} /\ log[c][i].cbs # <<>>

\* C7: after close(), postMessage() does not throw and no listener that close()
\* removed is called again.
C7_CloseThenPublish ==
    \A c \in Ctx :
        /\ ~threw[c]
        /\ \A i \in 1..Len(log[c]) : Range(log[c][i].cbs) \cap log[c][i].closedCbs = {}

\* C8: a malformed value under the notification key is discarded by every
\* context: no listener is called for it and the last-processed timestamp stays
\* what the publishes of the other contexts made it.
C8_MalformedDiscarded ==
    \A c \in Ctx :
        /\ \A i \in 1..Len(log[c]) : log[c][i].id # 0
        /\ \/ lastProcessedTimestamp[c] = 0
           \/ \E i \in 1..Len(pubs) :
                 pubs[i].from # c /\ pubs[i].at = lastProcessedTimestamp[c]

\* ------------------------------------------------- claims on the mirror
Running == {c \in Ctx : op[c].kind # "closed"}

\* The handler of c is past the return of its addPatient / updatePatient /
\* deletePatient call.
Returned(c) == op[c].kind \in {"add", "edit", "delete"} /\ op[c].step \in {"load", "publish"}

\* C9: for every add, update and delete done through the page the order is commit,
\* mirror write, publish: whenever a context publishes a notification, its write of
\* the record set to the mirror for that mutation has completed.
C9_MirrorWrittenBeforePublish ==
    [][\A c \in Ctx :
         (Len(pubs') = Len(pubs) + 1 /\ Last(pubs').from = c) => op[c].synced = "written"]_vars

\* C10: with a single context running, after every successful addPatient,
\* updatePatient or deletePatient the mirror holds the serialization of exactly that
\* context's record set, every record and no other, ordered by descending id.
C10_MirrorIsFullRecordSet ==
    \A c \in Ctx :
        (Running = {c} /\ Returned(c)) => mirror = Serialize(Rows(db[c]))

\* C11: when a context starts while another context is open and idle, having reached
\* its record set through adds, updates and deletes, the starting context's database
\* holds, after initDB, exactly the records of the open one: the same ids, and for
\* each id the same fields.
C11_PersistenceRoundTrip ==
    [][\A c \in Ctx :
         (op[c].kind = "closed" /\ op'[c].kind # "closed")
         => \A a \in Ctx \ {c} : op[a].kind = "idle" => db'[c] = db[a]]_vars

\* C12: when only context a has changed patients, every change was published, and
\* the already-open context b has handled the latest notification, the list b shows
\* contains a's changes: it is the list of a's records.
C12_ChangeVisibleInOtherTab ==
    \A a, b \in Ctx :
        ( /\ a # b /\ op[a].kind = "idle" /\ op[b].kind = "idle"
          /\ pubs # <<>> /\ Len(pubs) = ops
          /\ \A i \in 1..Len(pubs) : pubs[i].from = a
          /\ log[b] # <<>> /\ Last(log[b]).id = Len(pubs) )
        => view[b] = Rows(db[a])

C14_LastWriterWins ==
    [][ /\ \A c \in Ctx :
              (op[c].step = "sync" /\ op'[c].synced = "written")
              => mirror' = Serialize(Rows(db[c]))
        /\ mirror' # mirror
           => \E c \in Ctx : op[c].step = "sync" /\ op'[c].synced = "written" ]_vars

\* C14 witness: both contexts are in a mutation whose mirror write has run, their
\* record sets differ, and the mirror is the record set of one of them, without a
\* record that only the other one holds.
C14_Witness ==
    \E a, b \in Ctx :
        /\ a # b /\ op[a].synced = "written" /\ op[b].synced = "written"
        /\ mirror = Serialize(Rows(db[b]))
        /\ \E r \in db[a] : r \notin db[b] /\ r \notin Range(mirror.rows)

\* C15: a mutation whose database statement or mirror write failed never comes back
\* to its handler as a success.
C15_FailurePropagates ==
    \A c \in Ctx : ~(Returned(c) /\ op[c].synced = "failed")

\* C16: without a window the channel does nothing: no call throws, nothing is
\* written to the store, no timer is set, no event is queued anywhere and no
\* listener is ever called.
C16_NoWindowNoOp ==
    /\ notifyKey = Absent /\ timers = <<>>
    /\ \A c \in Ctx : log[c] = <<>> /\ inbox[c] = <<>> /\ ~threw[c]

\* C16 witness: a context that was closed and got a listener again has seen a
\* publish of the other context while that listener was registered.
C16_Witness ==
    \E c \in Ctx :
        /\ strategy = NoWindow /\ closeInfo[c].closed /\ listeners[c] # <<>>
        /\ \E i \in expected[c] : pubs[i].from # c

\* The callbacks of a set of registrations, earliest registration first.
RECURSIVE InOrder(_)
InOrder(R) ==
    IF R = {} THEN <<>>
    ELSE LET first == CHOOSE r \in R : \A q \in R : r.n <= q.n
         IN <<first.cb>> \o InOrder(R \ {first})

\* C17: each delivered message is passed to all listeners registered at that
\* moment, one call per registration, in the order of their registration.
C17_RegistrationOrder ==
    \A c \in Ctx : \A i \in 1..Len(log[c]) : log[c][i].cbs = InOrder(log[c][i].regd)

\* C17 witness: a message was passed to two different listeners.
C17_Witness ==
    \E c \in Ctx : \E i \in 1..Len(log[c]) :
        Len(log[c][i].cbs) = 2 /\ log[c][i].cbs[1] # log[c][i].cbs[2]

\* C18: a close() on an instance that an earlier close() left closed, with no
\* listener registered since, changes nothing of the instance (the native channel
\* stays closed, the listener list stays empty) and does not throw.
C18_CloseIdempotent ==
    [][\A c \in Ctx :
         ( /\ closeInfo[c].calls >= 1 /\ listeners[c] = <<>>
           /\ closeInfo'[c].calls = closeInfo[c].calls + 1 )
         => /\ nativeClosed'[c] = nativeClosed[c]
            /\ listeners'[c] = listeners[c]
            /\ registrations'[c] = registrations[c]
            /\ lastProcessedTimestamp'[c] = lastProcessedTimestamp[c]
            /\ threw'[c] = threw[c] /\ strategy' = strategy]_vars

\* C18 witness: close() was called twice on a native instance, which is closed,
\* has no listener and has not thrown.
C18_Witness ==
    \E c \in Ctx :
        /\ closeInfo[c].calls = 2 /\ strategy = "native"
        /\ nativeClosed[c] /\ listeners[c] = <<>> /\ ~threw[c]

\* C19: the message passed to the listeners carries a timestamp: the one it was
\* published with, or the time of the publish when it was published without one.
C19_StampedWhenAbsent ==
    \A c \in Ctx : \A i \in 1..Len(log[c]) :
        log[c][i].id # 0
        => log[c][i].message.timestamp =
              IF pubs[log[c][i].id].message.timestamp = NoTs
              THEN pubs[log[c][i].id].at
              ELSE pubs[log[c][i].id].message.timestamp

\* C20: no instance has both the native channel bound and the storage listener
\* installed; what is queued for a context comes from the mechanism the contexts are
\* bound to (native events only with the native channel, notification-key events
\* only with the storage listener, the key and its timers untouched by native
\* publishes), also after close(); and the mechanism never changes.
C20_OneMechanism ==
    /\ [](\A c \in Ctx :
            /\ ~(NativeBound(c) /\ c \in StorageListeners)
            /\ NativeBound(c) => notifyKey = Absent /\ timers = <<>>
            /\ \A i \in 1..Len(inbox[c]) :
                  /\ inbox[c][i].src = "native" => NativeBound(c)
                  /\ inbox[c][i].src = "storage" => c \in StorageListeners)
    /\ [][strategy' = strategy]_vars

\* C20 witness: an instance bound to the native channel was closed and then asked to
\* publish, which went to the closed native channel.
C20_Witness ==
    \E c \in Ctx : NativeBound(c) /\ closeInfo[c].closed /\ threw[c]

\* ------------------------------------------------------- the patient form
MaxContactLen == 13
MaxSubmit == 1

\* The characters typed into the contact field: a digit and a separator.
DigitChars == {"5"}
ContactChars == {"5", "-"}

\* formData.contact.replace(/[^0-9]/g, "")
StripNonDigits(s) == SelectSeq(s, LAMBDA ch : ch \in DigitChars)

\* A pattern that lets a thirteenth digit through.
ContactRegexLoose(s) ==
    /\ Len(s) >= 10 /\ Len(s) <= 13
    /\ \A i \in 1..Len(s) : s[i] \in DigitChars

\* /^\d{10,12}$/.test(s)
ContactRegexTest(s) ==
    /\ Len(s) >= 10 /\ Len(s) <= 12
    /\ \A i \in 1..Len(s) : s[i] \in DigitChars

\* validateForm(): the contact error is set when the stripped contact does not
\* match, and cleared (setErrors of an empty object) when it does.
ValidateForm(contact) == ContactRegexTest(StripNonDigits(contact))

\* The text of the contact field after a key: a character is appended, or the
\* last one is deleted.
Backspace == "backspace"
Edited(text, key) ==
    IF key = Backspace THEN SubSeq(text, 1, Len(text) - 1) ELSE Append(text, key)

\* handleChange on the contact field: the field takes the edited text, a contact
\* error is cleared.
HandleChange(key) ==
    /\ key = Backspace => form.contact # <<>>
    /\ Len(Edited(form.contact, key)) <= MaxContactLen
    /\ form' = [form EXCEPT !.contact = Edited(form.contact, key), !.error = FALSE]
    /\ UNCHANGED <<db, seq, mirror, view, op, ops, hydrated, commits, boot, page>>
    /\ UNCHANGED chanVars

\* handleSubmit: validateForm(), and when it passes onSubmit gets the form data
\* with the contact stripped of its non-digits.
HandleSubmit ==
    /\ Len(form.passed) < MaxSubmit
    /\ form' = IF ValidateForm(form.contact)
               THEN [form EXCEPT !.error = FALSE,
                                 !.passed = Append(@, StripNonDigits(form.contact))]
               ELSE [form EXCEPT !.error = TRUE]
    /\ UNCHANGED <<db, seq, mirror, view, op, ops, hydrated, commits, boot, page>>
    /\ UNCHANGED chanVars

NextForm ==
    \/ \E key \in ContactChars \cup {Backspace} : HandleChange(key) /\ UNCHANGED colVars
    \/ HandleSubmit /\ UNCHANGED colVars

\* The user types into the contact field of the add dialog and presses the button.
SpecForm == InitPageChannel /\ [][NextForm]_vars

\* The number of digit characters of a text, counted position by position.
DigitCount(s) == Cardinality({i \in 1..Len(s) : s[i] \in DigitChars})

\* C21: the form calls onSubmit if and only if the contact holds 10 to 12 digits
\* once its non-digits are removed; what onSubmit gets is digits only, and a
\* submit that fails validation calls nothing and sets the contact error.
C21_SubmitIffTenToTwelveDigits ==
    [][/\ form'.passed # form.passed => DigitCount(form.contact) \in 10..12
       /\ (form'.contact = form.contact /\ form' # form) =>
             IF DigitCount(form.contact) \in 10..12
             THEN /\ Len(form'.passed) = Len(form.passed) + 1
                  /\ SubSeq(form'.passed, 1, Len(form.passed)) = form.passed
                  /\ Len(Last(form'.passed)) = DigitCount(form.contact)
                  /\ \A i \in 1..Len(Last(form'.passed)) : Last(form'.passed)[i] \in DigitChars
             ELSE form'.passed = form.passed /\ form'.error]_vars

\* A contact typed with a separator was submitted, and onSubmit got its digits.
C21_Witness ==
    /\ form.passed # <<>>
    /\ \E i \in 1..Len(form.contact) : form.contact[i] \notin DigitChars
    /\ Len(Last(form.passed)) < Len(form.contact)

\* Context c starts: its initDB() runs in this step.
Starts(c) == op[c].kind = "closed" /\ op'[c].kind # "closed"

\* C22: sample records are inserted at startup only when the mirror holds no
\* data: a context that starts on a valid snapshot inserts no sample record, and
\* one that starts with the mirror key absent ends initialization with exactly
\* the three sample records in its database and in the mirror.
C22_SamplesOnlyWithoutMirror ==
    [][\A c \in Ctx : Starts(c) =>
          /\ mirror.kind = "json" => db'[c] = Range(mirror.rows)
          /\ mirror.kind = "absent" =>
                /\ db'[c] = Samples(0)
                /\ mirror' = Serialize(Rows(Samples(0)))]_vars

\* No two rows of a table share an id.
UniqueIds(S) == \A r1 \in S, r2 \in S : r1.id = r2.id => r1 = r2

\* C23: within one context's database no two records share an identifier, and
\* after rehydration from a mirror snapshot every record added later gets an
\* identifier strictly greater than every identifier in that snapshot.
C23_IdsUniqueAndAboveSnapshot ==
    /\ [](\A c \in Ctx : UniqueIds(db[c]))
    /\ [][\A c \in Ctx :
            (op[c].kind = "add" /\ op[c].step = "statement" /\ op'[c].step = "sync") =>
               \A r \in db'[c] \ db[c] : \A h \in hydrated[c] : r.id > h]_vars

\* No handler is running in any context.
AllIdle == \A c \in Ctx : op[c].kind = "idle"

HandlesRemoval(c) ==
    /\ inbox[c] # <<>>
    /\ Head(inbox[c]).key = NotifyKey /\ Head(inbox[c]).value = Absent
    /\ inbox'[c] = Tail(inbox[c])

\* C25: on the fallback the envelope is ephemeral: once every scheduled removal
\* has run, the notification key is absent.  A removal never keeps a later message
\* from being delivered: it leaves every queued event and every context's last
\* processed timestamp as they are, handling its event calls no listener, and a
\* publish that a subscribed context has not got when nothing is in transit shares
\* its millisecond with an earlier publish.
C25_EnvelopeEphemeral ==
    /\ [](strategy = "fallback" /\ timers = <<>> => notifyKey = Absent)
    /\ [](strategy = "fallback" /\ Quiet =>
             \A c \in Ctx : \A j \in expected[c] \ Ids(c) :
                \E i \in 1..(j - 1) : pubs[i].at = pubs[j].at)
    /\ [][(timers # <<>> /\ timers' = Tail(timers)) =>
             /\ lastProcessedTimestamp' = lastProcessedTimestamp /\ log' = log
             /\ \A c \in Ctx : SubSeq(inbox'[c], 1, Len(inbox[c])) = inbox[c]]_vars
    /\ [][\A c \in Ctx : HandlesRemoval(c) =>
             lastProcessedTimestamp' = lastProcessedTimestamp /\ log' = log]_vars

\* The removal scheduled by the first publish ran after the second publish wrote
\* its envelope (the second removal is still pending, the key is gone), and the
\* second message was delivered.
C25_Witness ==
    /\ strategy = "fallback" /\ Quiet
    /\ Len(pubs) = 2 /\ Len(timers) = 1 /\ notifyKey = Absent
    /\ \E c \in Ctx : 2 \in Ids(c)

\* ------------------------------------------------------- initDB, await by await
\* Text under the mirror key that JSON.parse rejects.
MirrorGarbage == [kind |-> "garbage", rows |-> <<>>]

\* What an earlier session can have left under the mirror key: nothing, text that
\* is no JSON, or the snapshot of a table holding some of the sample rows and
\* possibly one added row.
StoredMirrors ==
    {MirrorAbsent, MirrorGarbage} \cup
    {Serialize(Rows(R)) : R \in SUBSET (Samples(0) \cup {[id |-> Len(SampleNames) + 1, name |-> "n1"]})}

chanButInbox == <<strategy, constructed, nativeClosed, listeners, lastProcessedTimestamp, notifyKey,
                  timers, now, pubs, log, expected, handles, regs, registrations, unsub, closeInfo,
                  threw, malformed, redelivered>>

\* Where a call goes on once initialization is behind it: initDB() returns db, the
\* other functions issue their query on the patients table.
Finish(call) == IF call.then = "query" THEN "query" ELSE "returned"

\* if (!db) { db = new PGlite(...); await db.waitReady ... }: a call that finds db
\* null sets it before its first await; a call that finds it set skips the block.
Enter(b, k, then) ==
    IF b.handle
    THEN [b EXCEPT !.calls[k] = [pc |-> Finish([then |-> then]), then |-> then],
                   !.unready = @ \/ (then = "return" /\ ~b.done)]
    ELSE [b EXCEPT !.handle = TRUE, !.calls[k] = [pc |-> "waitReady", then |-> then]]

\* initDB() is called: by setupDatabase (at mount or from Retry Initialization) or
\* by executeQuery.
CallInitDB(c, k) ==
    /\ boot[c].calls[k].pc = "idle"
    /\ boot' = [boot EXCEPT ![c] = Enter(@, k, "return")]
    /\ UNCHANGED <<db, seq, mirror, view, op, ops, hydrated, commits, sideVars>>
    /\ UNCHANGED chanVars

\* getAllPatients, searchPatients, addPatient, updatePatient, deletePatient or
\* clearAllData is called: if (!db) await initDB(), then the query.
CallQuery(c, k) ==
    /\ boot[c].calls[k].pc = "idle"
    /\ boot' = [boot EXCEPT ![c] = Enter(@, k, "query")]
    /\ UNCHANGED <<db, seq, mirror, view, op, ops, hydrated, commits, sideVars>>
    /\ UNCHANGED chanVars

\* await db.waitReady settles; a rejection goes to the catch, which rethrows and
\* leaves db set.
WaitReady(c, k, ok) ==
    /\ boot[c].calls[k].pc = "waitReady"
    /\ boot' = [boot EXCEPT ![c].calls[k].pc = IF ok THEN "create" ELSE "threw"]
    /\ UNCHANGED <<db, seq, mirror, view, op, ops, hydrated, commits, sideVars>>
    /\ UNCHANGED chanVars

\* await db.query(CREATE TABLE IF NOT EXISTS patients ...)
CreateTable(c, k, ok) ==
    /\ boot[c].calls[k].pc = "create"
    /\ boot' = [boot EXCEPT ![c].calls[k].pc = IF ok THEN "read" ELSE "threw",
                            ![c].created = @ \/ ok]
    /\ UNCHANGED <<db, seq, mirror, view, op, ops, hydrated, commits, sideVars>>
    /\ UNCHANGED chanVars

\* localStorage.getItem("patients") and the inner try: JSON.parse, then for a
\* non-empty array one INSERT per record, in the order of the snapshot, and setval
\* to the highest id.  n records are inserted before an INSERT throws (all of
\* them: none throws).  The inner catch removes the key and falls through to the
\* seeding; so do an absent key and an empty array, without the removal.
ReadMirror(c, k, n) ==
    /\ boot[c].calls[k].pc = "read"
    /\ n \in 0..Len(mirror.rows)
    /\ IF mirror.kind = "json" /\ Len(mirror.rows) > 0
       THEN /\ db' = [db EXCEPT ![c] = @ \cup {mirror.rows[i] : i \in 1..n}]
            /\ IF n = Len(mirror.rows)
               THEN /\ seq' = [seq EXCEPT ![c] = MaxId(Range(mirror.rows))]
                    /\ hydrated' = [hydrated EXCEPT ![c] = {r.id : r \in Range(mirror.rows)}]
                    /\ boot' = [boot EXCEPT ![c].done = TRUE,
                                            ![c].calls[k].pc = Finish(boot[c].calls[k])]
                    /\ UNCHANGED <<mirror, inbox>>
               ELSE /\ mirror' = MirrorAbsent
                    /\ inbox' = StorageWrite(c, MirrorKey, TRUE, Absent, 0)
                    /\ boot' = [boot EXCEPT ![c].failed = TRUE, ![c].calls[k].pc = "seed"]
                    /\ UNCHANGED <<seq, hydrated>>
       ELSE /\ mirror' = IF mirror.kind = "garbage" THEN MirrorAbsent ELSE mirror
            /\ inbox' = StorageWrite(c, MirrorKey, mirror.kind = "garbage", Absent, 0)
            /\ boot' = [boot EXCEPT ![c].failed = @ \/ mirror.kind = "garbage",
                                    ![c].calls[k].pc = "seed"]
            /\ UNCHANGED <<db, seq, hydrated>>
    /\ UNCHANGED <<view, op, ops, commits, sideVars>>
    /\ UNCHANGED chanButInbox

\* The number of sample rows the table takes before an INSERT hits an id that is
\* already there (the primary key): all of them when none is.
SamplesTaken(S, lastId) ==
    LET hit == {i \in 1..Len(SampleNames) : \E r \in S : r.id = lastId + i}
    IN IF hit = {} THEN Len(SampleNames)
       ELSE (CHOOSE i \in hit : \A j \in hit : i <= j) - 1

\* await addSampleDataDirect(): one INSERT per sample, the id from the sequence,
\* then syncToLocalStorage(); an INSERT that throws ends initDB in its catch.
Seed(c, k, ok) ==
    /\ boot[c].calls[k].pc = "seed"
    /\ LET n == SamplesTaken(db[c], seq[c])
           table == db[c] \cup {r \in Samples(seq[c]) : r.id <= seq[c] + n}
       IN /\ db' = [db EXCEPT ![c] = table]
          /\ IF n = Len(SampleNames)
             THEN /\ seq' = [seq EXCEPT ![c] = @ + n]
                  /\ SyncToLocalStorage(c, table, ok)
                  /\ boot' = [boot EXCEPT ![c].done = TRUE,
                                          ![c].calls[k].pc = Finish(boot[c].calls[k])]
             ELSE /\ seq' = [seq EXCEPT ![c] = @ + n + 1]
                  /\ boot' = [boot EXCEPT ![c].calls[k].pc = "threw"]
                  /\ UNCHANGED <<mirror, inbox>>
    /\ UNCHANGED <<view, op, ops, hydrated, commits, sideVars>>
    /\ UNCHANGED chanButInbox

\* db!.query(... patients ...) of the calling function is issued.
Query(c, k) ==
    /\ boot[c].calls[k].pc = "query"
    /\ boot' = [boot EXCEPT ![c].calls[k].pc = "returned", ![c].early = @ \/ ~boot[c].done]
    /\ UNCHANGED <<db, seq, mirror, view, op, ops, hydrated, commits, sideVars>>
    /\ UNCHANGED chanVars

\* No tab is open; the mirror key holds what an earlier session left.
InitBoot ==
    /\ strategy \in Strategies
    /\ constructed = [c \in Ctx |-> FALSE]
    /\ nativeClosed = [c \in Ctx |-> FALSE]
    /\ listeners = [c \in Ctx |-> <<>>]
    /\ lastProcessedTimestamp = [c \in Ctx |-> 0]
    /\ notifyKey = Absent
    /\ inbox = [c \in Ctx |-> <<>>]
    /\ timers = <<>>
    /\ now = 1
    /\ pubs = <<>>
    /\ log = [c \in Ctx |-> <<>>]
    /\ expected = [c \in Ctx |-> {}]
    /\ handles = [c \in Ctx |-> {}]
    /\ regs = [c \in Ctx |-> 0]
    /\ registrations = [c \in Ctx |-> {}]
    /\ unsub = [c \in Ctx |-> {}]
    /\ closeInfo = [c \in Ctx |-> [closed |-> FALSE, cbs |-> {}, calls |-> 0]]
    /\ threw = [c \in Ctx |-> FALSE]
    /\ malformed = 0
    /\ redelivered = 0
    /\ db = [c \in Ctx |-> {}]
    /\ seq = [c \in Ctx |-> 0]
    /\ mirror \in StoredMirrors
    /\ view = [c \in Ctx |-> <<>>]
    /\ op = [c \in Ctx |-> [Idle EXCEPT !.kind = "closed"]]
    /\ ops = 0
    /\ hydrated = [c \in Ctx |-> {}]
    /\ boot = [c \in Ctx |-> BootNone]
    /\ page = [c \in Ctx |-> Mounted(FALSE)]
    /\ InitSide

\* Tab A is opened and the functions of its data layer are called, the calls
\* overlapping at their awaits.
NextBoot ==
    \/ \E k \in Callers : CallInitDB("A", k) /\ UNCHANGED colVars
    \/ \E k \in Callers : CallQuery("A", k) /\ UNCHANGED colVars
    \/ \E k \in Callers, ok \in BOOLEAN : WaitReady("A", k, ok) /\ UNCHANGED colVars
    \/ \E k \in Callers, ok \in BOOLEAN : CreateTable("A", k, ok) /\ UNCHANGED colVars
    \/ \E k \in Callers, n \in 0..(Len(SampleNames) + 1) : ReadMirror("A", k, n) /\ UNCHANGED colVars
    \/ \E k \in Callers, ok \in BOOLEAN : Seed("A", k, ok) /\ UNCHANGED colVars
    \/ \E k \in Callers : Query("A", k) /\ UNCHANGED colVars

SpecBoot == InitBoot /\ [][NextBoot]_vars

\* C26: within one context, for every interleaving of overlapping calls of the
\* data layer, no query against the patients table is issued before
\* initialization (table creation, then rehydration or seeding) has completed.
C26_NoQueryBeforeInit == \A c \in Ctx : ~boot[c].early

\* Call k of context c is inside the if (!db) block of initDB.
Initializing(c, k) == boot[c].calls[k].pc \in {"waitReady", "create", "read", "seed"}

\* C29: if initDB fails or is abandoned partway, a later call to initDB runs
\* initialization again; initDB never returns a database handle whose patients
\* table has not been created and populated.
C29_InitRerunAfterFailure ==
    /\ [](\A c \in Ctx : ~boot[c].unready)
    /\ [][\A c \in Ctx, k \in Callers :
            (/\ boot[c].calls[k].pc = "idle" /\ boot'[c].calls[k].then = "return"
             /\ ~boot[c].done
             /\ \A j \in Callers : ~Initializing(c, j))
            => Initializing(c, k)']_vars

\* The initialization of context c has ended: a call went through it, and none
\* is inside it.
InitEnded(c) ==
    /\ \E k \in Callers : boot[c].calls[k].pc \in {"query", "returned", "threw"}
    /\ \A k \in Callers : ~Initializing(c, k)

\* C30: if rehydration from the mirror fails (the text does not parse, or an
\* insert fails partway), the mirror key is removed and initialization ends with
\* the database holding exactly the sample records, none of the snapshot's.
C30_FailedRehydrationLeavesSamples ==
    /\ [][\A c \in Ctx : (~boot[c].failed /\ boot'[c].failed) => mirror' = MirrorAbsent]_vars
    /\ [](\A c \in Ctx : (boot[c].failed /\ InitEnded(c)) => db[c] = Samples(0))

\* C27: after the page component unmounts, no listener registered by it remains
\* subscribed on the channel, whenever the unmount comes relative to the
\* asynchronous setup, and also when the setup was re-run through Retry.
C27_NoListenerAfterUnmount ==
    \A c \in Ctx : (page[c].unmounted /\ op[c].kind # "setup") => listeners[c] = <<>>

\* The statement of context c's add, update or delete fails in this step.
StatementFails(c) ==
    /\ op[c].kind \in {"add", "edit", "delete"} /\ op[c].step = "statement"
    /\ op'[c] # op[c] /\ commits' = commits

\* C28: if the database statement of an add, update or delete fails, the mirror
\* is left unchanged and no change notification is published for that operation:
\* the handler ends with the failure.
C28_FailedStatementNoMirrorNoPublish ==
    [][\A c \in Ctx : StatementFails(c) =>
          mirror' = mirror /\ pubs' = pubs /\ op'[c] = Idle]_vars

\* A mutation was started and failed: no handler is running, nothing was published,
\* the mirror is as it was.
C28_Witness ==
    /\ ops = 1 /\ commits = 0 /\ AllIdle
    /\ pubs = <<>> /\ mirror = Serialize(Rows(Samples(0)))

\* The sequence s without its i-th element.
Without(s, i) == SubSeq(s, 1, i - 1) \o SubSeq(s, i + 1, Len(s))

\* An unsubscribe handle of context c changes the listener list in this step:
\* nothing was registered and close() was not called.
HandleRemoves(c) ==
    /\ listeners'[c] # listeners[c]
    /\ regs'[c] = regs[c] /\ closeInfo'[c] = closeInfo[c]

\* C31: a call of the unsubscribe handle returned by onMessage removes the one
\* registration it was returned for: all other registrations of the instance, of
\* another callback or of the same one, stay in the list in their order; a
\* second call of the handle changes nothing.
C31_HandleRemovesOneRegistration ==
    [][\A c \in Ctx : HandleRemoves(c) =>
          \E i \in 1..Len(listeners[c]) :
              /\ listeners[c][i] \in unsub'[c]
              /\ listeners'[c] = Without(listeners[c], i)]_vars

\* C32: for each delivered message every registered listener is called, also
\* when a listener registered before it throws, and what happens to the thrown
\* exception is the same on the native and on the fallback strategy.
C32_ThrowingListenerIsolated ==
    \A c \in Ctx : \A i \in 1..Len(log[c]) :
        log[c][i].raised =>
            /\ log[c][i].cbs = InOrder(log[c][i].regd)
            /\ CatchesListener("native") = CatchesListener("storage")

\* initDB() of context c rehydrates from a snapshot in this step.
Rehydrates(c) == op[c].kind = "closed" /\ op'[c].kind = "setup" /\ hydrated'[c] # {}

\* C33: rehydration keeps the creation timestamp: a record read back from the
\* mirror at startup has the createdAt value it had in the context that wrote
\* the snapshot.
C33_RehydrationKeepsCreatedAt ==
    [][\A c \in Ctx : Rehydrates(c) =>
          \A id \in hydrated'[c] : createdAt'[c][id] = mirrorCreatedAt[id]]_vars

\* clearAllData() of context c returns true in this step.
ClearSucceeds(c) ==
    /\ op[c].kind = "clear" /\ op[c].step = "statement"
    /\ op'[c] # op[c] /\ commits' = commits + 1

\* The publishes of context c.
PublishedBy(c, P) == SelectSeq(P, LAMBDA m : m.from = c)

\* C34: when clearAllData succeeds the context's table is empty, its sequence
\* gives id 1 to the next record added, and the mirror key is absent; the Clear
\* All handler then publishes one PATIENT_UPDATED message with action delete,
\* and ends with it.
C34_ClearAllData ==
    [][\A c \in Ctx :
          /\ ClearSucceeds(c) =>
                /\ db'[c] = {}
                /\ RowIds(Insert(db'[c], seq'[c], "n1")) = {1}
                /\ mirror' = MirrorAbsent
                /\ pubs' = pubs /\ op'[c].kind = "clear"
          /\ (op[c].kind = "clear" /\ op[c].step # "statement") =>
                IF op'[c] = Idle
                THEN /\ pubs' = Append(pubs, Last(pubs'))
                     /\ Last(pubs').from = c
                     /\ Last(pubs').message = PatientUpdated("delete", now)
                ELSE PublishedBy(c, pubs') = PublishedBy(c, pubs)]_vars

\* A Clear All has run to its end on a store that held records: the table of the
\* context is empty, its sequence is restarted, and its last publish is the
\* delete notification.
C34_Witness ==
    \E c \in Ctx :
        /\ op[c] = Idle /\ db[c] = {} /\ seq[c] = 0 /\ view[c] = <<>>
        /\ PublishedBy(c, pubs) # <<>>
        /\ Last(PublishedBy(c, pubs)).message.action = "delete"
====
